---- MODULE Spec2Model ----
(***************************************************************************)
(* A model of deq_tools (src/deq_tools/__init__.py): the pydantic data     *)
(* models and their construction from upstream JSON, the retry-wrapped     *)
(* transport (tenacity), the auth-token helper and the three public        *)
(* operations get_station_data, get_station_names and get_data.            *)
(***************************************************************************)
EXTENDS Integers, Sequences, FiniteSets, TLC

(***************************************************************************)
(* JSON values.  A JSON string carries its content c, a record whose form  *)
(* tells how the text reads: plain text, a decimal numeral, a date in the  *)
(* upstream format "%m/%d/%Y %I:%M:%S %p", or an ISO-8601 date-time.       *)
(***************************************************************************)
Null == [t |-> "null"]
JNum(i, frac) == [t |-> "num", i |-> i, frac |-> frac]
JInt(n) == JNum(n, 0)
JBool(b) == [t |-> "bool", b |-> b]
JStr(c) == [t |-> "str", c |-> c]
JArr(a) == [t |-> "arr", a |-> a]
JObj(o) == [t |-> "obj", o |-> o]

Text(s) == [form |-> "text", s |-> s]
Digits(n) == [form |-> "digits", n |-> n]
UsDate(mo, d, y, h, mi, s, p) ==
    [form |-> "us", mo |-> mo, d |-> d, y |-> y, h |-> h, mi |-> mi, s |-> s, p |-> p]
IsoDate(dt) == [form |-> "iso", dt |-> dt]

JText(s) == JStr(Text(s))

(***************************************************************************)
(* Python values held by the models.                                       *)
(***************************************************************************)
PNone == [t |-> "None"]
PInt(n) == [t |-> "int", i |-> n]
PFloat(i, frac) == [t |-> "float", i |-> i, frac |-> frac]
PBool(b) == [t |-> "bool", b |-> b]
PStr(c) == [t |-> "str", c |-> c]
PDt(dt) == [t |-> "datetime", dt |-> dt]
PAny(j) == [t |-> "any", j |-> j]
PList(a) == [t |-> "list", a |-> a]
PModel(cls, f) == [t |-> "model", cls |-> cls, f |-> f]

DateTime(y, mo, d, h, mi, s) == [y |-> y, mo |-> mo, d |-> d, h |-> h, mi |-> mi, s |-> s]

Ok(v) == [ok |-> TRUE, v |-> v]
Err(e) == [ok |-> FALSE, err |-> e]

(***************************************************************************)
(* The declared fields of each model: python name, upstream alias, kind,   *)
(* whether None is allowed (Optional), whether the key is required, and    *)
(* the default used when the key is absent.                                *)
(***************************************************************************)
F(name, alias, kind) ==
    [name |-> name, alias |-> alias, kind |-> kind, opt |-> TRUE, req |-> FALSE, dflt |-> PNone]

LocationFields ==
    << F("latitude", "latitude", "float"),
       F("longitude", "longitude", "float") >>

MonitorFields ==
    << F("channel_id", "channelId", "int"),
       F("name", "name", "str"),
       F("alias", "alias", "str"),
       F("description", "description", "str"),
       F("active", "active", "bool"),
       F("type_id", "typeId", "int"),
       F("pollutant_id", "pollutantId", "int"),
       F("units", "units", "str"),
       F("unit_id", "unitID", "int"),
       F("map_view", "mapView", "bool"),
       F("is_index", "isIndex", "bool"),
       F("pollutant_category", "PollutantCategory", "int"),
       F("numeric_format", "NumericFormat", "str"),
       F("low_range", "LowRange", "int"),
       F("high_range", "HighRange", "int"),
       F("state", "state", "int"),
       F("pct_valid", "PctValid", "int"),
       F("monitor_title", "MonitorTitle", "str"),
       F("mon_start_date", "MON_StartDate", "usdate"),
       F("mon_end_date", "MON_EndDate", "usdate") >>

StationFields ==
    << [F("station_id", "stationId", "int") EXCEPT !.opt = FALSE],
       F("stations_tag", "stationsTag", "str"),
       F("height", "height", "int"),
       F("name", "name", "str"),
       F("short_name", "shortName", "str"),
       F("location", "location", "Location"),
       F("timebase", "timebase", "int"),
       F("active", "active", "bool"),
       F("owner", "owner", "str"),
       F("owner_id", "ownerId", "int"),
       F("region_id", "regionId", "int"),
       F("monitors", "monitors", "list_Monitor"),
       F("station_target", "StationTarget", "str"),
       F("target_id", "TargetId", "int"),
       F("county", "County", "str"),
       F("city", "city", "str"),
       F("address", "address", "str"),
       F("time_bases", "timeBases", "list_int"),
       F("additional_timebases", "additionalTimebases", "str"),
       F("is_non_continuous", "isNonContinuous", "str"),
       F("map_view", "mapView", "bool"),
       F("aqi_view", "aqiView", "bool"),
       F("mobile", "mobile", "bool"),
       F("aqscode", "AQSCODE", "str") >>

(* Region with regionId declared a required int. *)
RegionFieldsIdRequired ==
    << [F("region_id", "regionId", "int") EXCEPT !.opt = FALSE, !.req = TRUE],
       F("name", "name", "str"),
       [F("stations", "stations", "list_Station") EXCEPT !.opt = FALSE, !.req = TRUE] >>

RegionFields ==
    << F("region_id", "regionId", "int"),
       F("name", "name", "str"),
       [F("stations", "stations", "list_Station") EXCEPT !.opt = FALSE, !.req = TRUE] >>

ChannelFields ==
    << F("value_date", "value_date", "any"),
       F("status", "status", "int"),
       F("value", "value", "float"),
       F("valid", "valid", "bool"),
       F("id", "id", "int"),
       F("units", "units", "str"),
       F("name", "name", "str") >>

StationDatumFields ==
    << F("datetime", "datetime", "datetime"),
       [F("channels", "channels", "list_Channel") EXCEPT !.opt = FALSE, !.dflt = PList(<<>>)] >>

MonitorDataFields ==
    << [F("data", "data", "list_StationDatum") EXCEPT !.opt = FALSE, !.req = TRUE] >>

Fields(cls) ==
    CASE cls = "Location" -> LocationFields
      [] cls = "Monitor" -> MonitorFields
      [] cls = "Station" -> StationFields
      [] cls = "Region" -> RegionFields
      [] cls = "Channel" -> ChannelFields
      [] cls = "StationDatum" -> StationDatumFields
      [] cls = "MonitorData" -> MonitorDataFields

(***************************************************************************)
(* Monitor.interpret_date: strptime(value, "%m/%d/%Y %I:%M:%S %p").        *)
(* A value that is no string is a TypeError; a string that does not read   *)
(* in the format, or whose fields are out of range, is a ValueError, which *)
(* pydantic reports as a ValidationError.  %I is a 12-hour clock: 12 AM is *)
(* hour 0 and 12 PM is hour 12.                                            *)
(***************************************************************************)
interpret_date(value) ==
    IF value.t # "str" THEN Err("TypeError")
    ELSE IF value.c.form # "us" THEN Err("ValidationError")
    ELSE LET c == value.c IN
         IF /\ c.mo \in 1..12 /\ c.d \in 1..31 /\ c.y \in 1..9999
            /\ c.h \in 1..12 /\ c.mi \in 0..59 /\ c.s \in 0..59
            /\ c.p \in {"AM", "PM"}
         THEN Ok(PDt(DateTime(c.y, c.mo, c.d,
                              (c.h % 12) + (IF c.p = "PM" THEN 12 ELSE 0), c.mi, c.s)))
         ELSE Err("ValidationError")

(***************************************************************************)
(* pydantic's validation of one value against a scalar annotation (lax     *)
(* mode): int accepts integral numbers and decimal numerals, float accepts *)
(* numbers and numerals, str accepts only strings, bool accepts booleans   *)
(* and the numbers 0 and 1, datetime accepts ISO-8601 strings.             *)
(***************************************************************************)
ValidateScalar(kind, v) ==
    CASE kind = "int" ->
            IF v.t = "num" THEN (IF v.frac = 0 THEN Ok(PInt(v.i)) ELSE Err("ValidationError"))
            ELSE IF v.t = "str" /\ v.c.form = "digits" THEN Ok(PInt(v.c.n))
            ELSE IF v.t = "bool" THEN Ok(PInt(IF v.b THEN 1 ELSE 0))
            ELSE Err("ValidationError")
      [] kind = "float" ->
            IF v.t = "num" THEN Ok(PFloat(v.i, v.frac))
            ELSE IF v.t = "str" /\ v.c.form = "digits" THEN Ok(PFloat(v.c.n, 0))
            ELSE IF v.t = "bool" THEN Ok(PFloat(IF v.b THEN 1 ELSE 0, 0))
            ELSE Err("ValidationError")
      [] kind = "str" ->
            IF v.t = "str" THEN Ok(PStr(v.c)) ELSE Err("ValidationError")
      [] kind = "bool" ->
            IF v.t = "bool" THEN Ok(PBool(v.b))
            ELSE IF v.t = "num" /\ v.frac = 0 /\ v.i \in {0, 1} THEN Ok(PBool(v.i = 1))
            ELSE Err("ValidationError")
      [] kind = "datetime" ->
            IF v.t = "str" /\ v.c.form = "iso" THEN Ok(PDt(v.c.dt))
            ELSE Err("ValidationError")
      [] kind = "any" -> Ok(PAny(v))

ElementKind(kind) ==
    CASE kind = "list_int" -> "int"
      [] kind = "list_Monitor" -> "Monitor"
      [] kind = "list_Station" -> "Station"
      [] kind = "list_Channel" -> "Channel"
      [] kind = "list_StationDatum" -> "StationDatum"

IsListKind(kind) ==
    kind \in {"list_int", "list_Monitor", "list_Station", "list_Channel", "list_StationDatum"}

IsModelKind(kind) ==
    kind \in {"Location", "Monitor", "Station", "Region", "Channel", "StationDatum", "MonitorData"}

(***************************************************************************)
(* The outcome of validating several values together: a TypeError raised   *)
(* inside a validator escapes as it is, validation errors are collected    *)
(* into one ValidationError.                                               *)
(***************************************************************************)
Combined(results) ==
    IF \E r \in results : ~r.ok /\ r.err = "TypeError" THEN Err("TypeError")
    ELSE IF \E r \in results : ~r.ok THEN Err("ValidationError")
    ELSE Ok(PNone)

RECURSIVE ParseModel(_, _)
RECURSIVE ValidateValue(_, _)

(***************************************************************************)
(* The validation of a present value v against field f.  The pre=True      *)
(* validators parse_dt1 / parse_dt2 run first, on whatever value the key   *)
(* holds, null included; None passes an Optional annotation only.          *)
(***************************************************************************)
ValidateField(f, v) ==
    IF f.kind = "usdate" THEN interpret_date(v)
    ELSE IF v = Null THEN (IF f.opt THEN Ok(PNone) ELSE Err("ValidationError"))
    ELSE ValidateValue(f.kind, v)

ValidateValue(kind, v) ==
    IF IsModelKind(kind) THEN ParseModel(kind, v)
    ELSE IF IsListKind(kind) THEN
        IF v.t # "arr" THEN Err("ValidationError")
        ELSE LET rs == [i \in DOMAIN v.a |-> ValidateValue(ElementKind(kind), v.a[i])]
                 all == Combined({rs[i] : i \in DOMAIN rs})
             IN IF all.ok THEN Ok(PList([i \in DOMAIN rs |-> rs[i].v])) ELSE all
    ELSE ValidateScalar(kind, v)

(***************************************************************************)
(* Constructing a model from the keys of obj: every declared field is read *)
(* under its alias; an absent                                              *)
(* key takes the default without validation, unless the field is required. *)
(* Keys that are no alias of the model are ignored.                        *)
(***************************************************************************)
ParseModel(cls, j) ==
    IF j.t # "obj" THEN Err("ValidationError")
    ELSE LET fs == Fields(cls)
             rs == [i \in DOMAIN fs |->
                      IF fs[i].alias \in DOMAIN j.o THEN ValidateField(fs[i], j.o[fs[i].alias])
                      ELSE IF fs[i].req THEN Err("ValidationError")
                      ELSE Ok(fs[i].dflt)]
             all == Combined({rs[i] : i \in DOMAIN rs})
             names == {fs[i].name : i \in DOMAIN fs}
         IN IF all.ok
            THEN Ok(PModel(cls, [n \in names |->
                                   rs[CHOOSE i \in DOMAIN fs : fs[i].name = n].v]))
            ELSE all

(***************************************************************************)
(* model_dump_json(by_alias=True) read back as JSON: every declared field  *)
(* is written under its alias, None as null, a datetime as an ISO-8601     *)
(* string, an int as a number.                                             *)
(***************************************************************************)
RECURSIVE Serialize(_)
Serialize(p) ==
    CASE p.t = "None" -> Null
      [] p.t = "int" -> JInt(p.i)
      [] p.t = "float" -> JNum(p.i, p.frac)
      [] p.t = "bool" -> JBool(p.b)
      [] p.t = "str" -> JStr(p.c)
      [] p.t = "datetime" -> JStr(IsoDate(p.dt))
      [] p.t = "any" -> p.j
      [] p.t = "list" -> JArr([i \in DOMAIN p.a |-> Serialize(p.a[i])])
      [] p.t = "model" ->
            LET fs == Fields(p.cls)
                aliases == {fs[i].alias : i \in DOMAIN fs}
            IN JObj([a \in aliases |->
                       Serialize(p.f[fs[CHOOSE i \in DOMAIN fs : fs[i].alias = a].name])])

(***************************************************************************)
(* Python truthiness of a field value: None, 0 and "" are false.           *)
(***************************************************************************)
Truthy(p) ==
    CASE p.t = "None" -> FALSE
      [] p.t = "int" -> p.i # 0
      [] p.t = "str" -> p.c # Text("")
      [] OTHER -> TRUE

(* The filter without its test of the name. *)
KeepRegionIdOnly(region) == Truthy(region.f.region_id)

(***************************************************************************)
(* get_station_data's filter: if region.region_id and region.name.         *)
(***************************************************************************)
KeepRegion(region) == Truthy(region.f.region_id) /\ Truthy(region.f.name)

(***************************************************************************)
(* get_station_data's loop over the decoded response body, from region i   *)
(* on, with the regions kept so far: the first region that fails to parse  *)
(* raises and nothing is returned.                                         *)
(***************************************************************************)
RECURSIVE StationDataLoop(_, _, _)
StationDataLoop(body, i, regions) ==
    IF i > Len(body) THEN Ok(regions)
    ELSE LET r == ParseModel("Region", body[i]) IN
         IF ~r.ok THEN r
         ELSE StationDataLoop(body, i + 1,
                              IF KeepRegion(r.v) THEN Append(regions, r.v) ELSE regions)

(* The loop putting each kept region in front of the list. *)
Reversed(q) == [i \in DOMAIN q |-> q[Len(q) + 1 - i]]

get_station_data_prepending(body) ==
    LET r == StationDataLoop(body, 1, <<>>) IN IF r.ok THEN Ok(Reversed(r.v)) ELSE r

get_station_data(body) == StationDataLoop(body, 1, <<>>)

(***************************************************************************)
(* get_station_names: station_names[station.station_id] = station.name,    *)
(* for every station of every region in order, when neither is None.       *)
(***************************************************************************)
SetItem(d, k, v) == [x \in DOMAIN d \cup {k} |-> IF x = k THEN v ELSE d[x]]

(* The assignment keeping the first name seen for an id. *)
AddStationFirstWins(names, station) ==
    IF station.f.station_id # PNone /\ station.f.name # PNone
       /\ station.f.station_id.i \notin DOMAIN names
    THEN SetItem(names, station.f.station_id.i, station.f.name)
    ELSE names

AddStation(names, station) ==
    IF station.f.station_id # PNone /\ station.f.name # PNone
    THEN SetItem(names, station.f.station_id.i, station.f.name)
    ELSE names

RECURSIVE StationsLoop(_, _, _)
StationsLoop(stations, j, names) ==
    IF j > Len(stations) THEN names
    ELSE StationsLoop(stations, j + 1, AddStation(names, stations[j]))

RECURSIVE RegionsLoop(_, _, _)
RegionsLoop(station_data, i, names) ==
    IF i > Len(station_data) THEN names
    ELSE RegionsLoop(station_data, i + 1,
                     StationsLoop(station_data[i].f.stations.a, 1, names))

get_station_names(station_data) == RegionsLoop(station_data, 1, <<>>)

(***************************************************************************)
(* The inputs: upstream-shaped JSON, drawn from small sets.                *)
(***************************************************************************)
MaxRegions == 2
MaxData == 2

With(o, k, v) == [x \in DOMAIN o \cup {k} |-> IF x = k THEN v ELSE o[x]]
Without(o, k) == [x \in DOMAIN o \ {k} |-> o[x]]

Midnight == JStr(UsDate(1, 2, 2020, 12, 0, 0, "AM"))
Noon == JStr(UsDate(6, 15, 2021, 12, 30, 0, "PM"))
Sentinel == JStr(UsDate(12, 31, 9999, 11, 59, 59, "PM"))
Hour13 == JStr(UsDate(1, 2, 2020, 13, 0, 0, "PM"))

MonitorBase ==
    [channelId |-> JInt(3), name |-> JText("PM2.5"), alias |-> JText("pm25"),
     description |-> Null, active |-> JBool(TRUE), typeId |-> JInt(1),
     pollutantId |-> JInt(88101), units |-> JText("ug/m3"), unitID |-> JInt(2),
     mapView |-> JBool(FALSE), isIndex |-> JBool(FALSE), PollutantCategory |-> JInt(0),
     NumericFormat |-> JText("F1"), LowRange |-> JInt(0), HighRange |-> JInt(500),
     state |-> JInt(1), PctValid |-> JInt(75), MonitorTitle |-> Null,
     MON_StartDate |-> Midnight, MON_EndDate |-> Sentinel]

MonitorSamples ==
    { MonitorBase,
      With(MonitorBase, "MON_StartDate", Noon),
      With(MonitorBase, "MON_EndDate", Null),
      With(MonitorBase, "MON_StartDate", Null),
      With(MonitorBase, "MON_StartDate", JStr(IsoDate(DateTime(2020, 1, 2, 0, 0, 0)))),
      With(MonitorBase, "MON_EndDate", Hour13),
      With(MonitorBase, "channelId", Null),
      Without(Without(MonitorBase, "MON_StartDate"), "MON_EndDate"),
      <<>> }

LocationBase == [latitude |-> JNum(45, 500), longitude |-> JNum(-122, 600)]

StationBase ==
    [stationId |-> JInt(1), stationsTag |-> Null, height |-> JStr(Digits(3)),
     name |-> JText("Tualatin"), shortName |-> JText("TBC"), location |-> JObj(LocationBase),
     timebase |-> JInt(60), active |-> JBool(TRUE), owner |-> JText("DEQ"),
     ownerId |-> JInt(1), regionId |-> JInt(1), monitors |-> JArr(<<JObj(MonitorBase)>>),
     StationTarget |-> Null, TargetId |-> JInt(0), County |-> JText("Washington"),
     city |-> JText("Tualatin"), address |-> Null, timeBases |-> JArr(<<JInt(5), JInt(60)>>),
     additionalTimebases |-> JText("5"), isNonContinuous |-> Null, mapView |-> JBool(TRUE),
     aqiView |-> JBool(TRUE), mobile |-> JBool(FALSE), AQSCODE |-> JText("410670005")]

Mini(id, name) == [stationId |-> JInt(id), name |-> JText(name)]

WithMonitor(m) == With(StationBase, "monitors", JArr(<<JObj(m)>>))

StationSamples ==
    { StationBase,
      With(StationBase, "height", JInt(3)),
      With(StationBase, "stationId", Null),
      With(StationBase, "location", Null),
      With(StationBase, "monitors", Null),
      With(StationBase, "monitors", JArr(<<JObj(MonitorBase), JObj(With(MonitorBase, "MON_StartDate", Noon))>>)),
      Mini(1, "Tualatin"), Mini(1, "Sauvie"), Mini(2, "Sauvie"), Mini(2, ""),
      [stationId |-> JInt(3)],
      [name |-> JText("Nameless")],
      [stationId |-> JInt(3), name |-> Null],
      <<>> }
    \cup {WithMonitor(m) : m \in MonitorSamples}

Region(id, name, stations) == [regionId |-> id, name |-> name, stations |-> JArr(stations)]

StationOf(o) == JObj(o)

RegionSamples ==
    { Region(JInt(1), JText("Portland"), <<StationOf(Mini(1, "Tualatin"))>>),
      Region(JInt(2), JText("Valley"), <<StationOf(Mini(1, "Sauvie")), StationOf(Mini(2, "Sauvie"))>>),
      Region(JInt(0), JText(""), <<>>),
      Region(JInt(0), JText("Zero"), <<StationOf(Mini(2, "Tualatin"))>>),
      Region(Null, Null, <<>>),
      Region(JInt(3), JText(""), <<StationOf(Mini(2, "Tualatin"))>>),
      Region(JInt(3), Null, <<StationOf(Mini(3, "Tualatin"))>>),
      [stations |-> JArr(<<>>)],
      [name |-> JText("Portland"), stations |-> JArr(<<StationOf(Mini(1, "Tualatin"))>>)],
      [regionId |-> JInt(1), stations |-> JArr(<<StationOf(Mini(1, "Tualatin"))>>)],
      [regionId |-> JInt(1), name |-> JText("Portland")],
      [regionId |-> JInt(1), name |-> JText("Portland"), stations |-> Null],
      Region(JInt(4), JText("Coast"),
             <<StationOf([stationId |-> JInt(3)]), StationOf([name |-> JText("Nameless")]),
               StationOf([stationId |-> JInt(3), name |-> Null]), StationOf(Mini(2, ""))>>),
      Region(JInt(5), JText("East"), <<StationOf(With(StationBase, "stationId", Null))>>),
      Region(JInt(6), JText("South"),
             <<StationOf(StationBase), StationOf(Mini(1, "Sauvie")), StationOf([name |-> JText("Nameless")])>>),
      Region(JInt(7), JText("North"), <<StationOf(WithMonitor(With(MonitorBase, "MON_EndDate", Null)))>>),
      Region(JStr(Digits(9)), JText("Gorge"), <<StationOf(Mini(2, "Sauvie"))>>),
      Region(JInt(8), JText("West"), <<StationOf(WithMonitor(With(MonitorBase, "MON_EndDate", Hour13)))>>) }

SeqsUpTo(S, n) == UNION {[1..k -> S] : k \in 0..n}

Catalogs == SeqsUpTo({JObj(r) : r \in RegionSamples}, MaxRegions)

NotJson == [t |-> "notjson"]

ChannelBase ==
    [value_date |-> Null, status |-> JInt(1), value |-> JNum(7, 300), valid |-> JBool(TRUE),
     id |-> JInt(3), units |-> JText("ug/m3"), name |-> JText("PM2.5")]

ChannelSamples ==
    { ChannelBase, With(ChannelBase, "value", Null), With(ChannelBase, "valid", JText("maybe")),
      With(ChannelBase, "value_date", JText("2024-01-01")), <<>> }

Jan1 == JStr(IsoDate(DateTime(2024, 1, 1, 0, 0, 0)))

StationDatumSamples ==
    { [datetime |-> Jan1, channels |-> JArr(<<JObj(ChannelBase)>>)],
      [datetime |-> Jan1, channels |-> JArr(<<>>)],
      [datetime |-> Null, channels |-> JArr(<<JObj(ChannelBase), JObj(<<>>)>>)],
      [datetime |-> Jan1, channels |-> Null],
      [datetime |-> Midnight, channels |-> JArr(<<>>)],
      [datetime |-> Jan1],
      <<>> }

DataBodies ==
    {JObj([data |-> JArr(d)]) : d \in SeqsUpTo({JObj(x) : x \in StationDatumSamples}, MaxData)}
    \cup {JObj(<<>>), JObj([data |-> Null]), NotJson}

ModelClasses == {"Location", "Monitor", "Station", "Region", "Channel", "StationDatum"}

(***************************************************************************)
(* For each model, the complete object, and that object with one key set   *)
(* to null or left out.                                                    *)
(***************************************************************************)
OneKeyOff(base) ==
    {base} \cup {With(base, k, Null) : k \in DOMAIN base} \cup {Without(base, k) : k \in DOMAIN base}

ConstructInputs(cls) ==
    CASE cls = "Location" -> {JObj(o) : o \in OneKeyOff(LocationBase) \cup {<<>>}}
      [] cls = "Monitor" -> {JObj(o) : o \in OneKeyOff(MonitorBase) \cup MonitorSamples}
      [] cls = "Station" -> {JObj(o) : o \in OneKeyOff(StationBase) \cup StationSamples}
      [] cls = "Region" ->
            {JObj(r) : r \in RegionSamples}
            \cup {JObj(Region(JInt(6), JText("South"), <<StationOf(s)>>)) : s \in StationSamples}
      [] cls = "Channel" -> {JObj(o) : o \in OneKeyOff(ChannelBase) \cup ChannelSamples}
      [] cls = "StationDatum" -> {JObj(o) : o \in StationDatumSamples}

(***************************************************************************)
(* The state.  One caller, one call at a time (the library is synchronous):*)
(*   pc        where the current call stands                               *)
(*   op        the operation called                                        *)
(*   calls     calls started so far                                        *)
(*   tokenReqs token requests made by the current call                     *)
(*   attempts  requests made by the retry-wrapped get/post of the call     *)
(*   failure   the failure of the latest attempt                           *)
(*   headers   the Authorization token in the headers passed to get        *)
(*   sent      the Authorization tokens the call's GET attempts carried    *)
(*   issued    bodies the token endpoint has answered with, ever           *)
(*   spent     tokens obtained by earlier calls                            *)
(*   body      the decoded body of the successful response, or the object  *)
(*             a model is constructed from                                 *)
(*   result    what the call returned                                      *)
(*   raised    what the call raised                                        *)
(***************************************************************************)
VARIABLES pc, op, calls, tokenReqs, attempts, failure, headers, sent, issued, spent,
          body, result, raised

vars == <<pc, op, calls, tokenReqs, attempts, failure, headers, sent, issued, spent,
          body, result, raised>>

MaxCalls == 2
MaxAttempts == 10

NoError == [kind |-> "none", src |-> "none", attempt |-> 0]
Failure(kind, src, n) == [kind |-> kind, src |-> src, attempt |-> n]
NoToken == [valid |-> FALSE, id |-> 0]
Token(valid, id) == [valid |-> valid, id |-> id]
NoBody == [t |-> "nobody"]
NoResult == [t |-> "none"]
Response(n) == [t |-> "response", attempt |-> n]
Regions(v) == [t |-> "regions", v |-> v]
Names(v) == [t |-> "names", v |-> v]

OuterOps == {"get_station_data", "get_station_names", "get_data"}
TransportOps == {"get", "post"}

(***************************************************************************)
(* The bodies a successful catalog or data response may carry when the     *)
(* whole call is followed, request by request.                             *)
(***************************************************************************)
StationResponseBodies ==
    { NotJson, JArr(<<>>) }
    \cup {JArr(<<JObj(r)>>) : r \in RegionSamples}

DataResponseBodies ==
    { NotJson, JObj(<<>>), JObj([data |-> Null]), JObj([data |-> JArr(<<>>)]) }
    \cup {JObj([data |-> JArr(<<JObj(x)>>)]) : x \in StationDatumSamples}

ResponseBodies(o) == IF o = "get_data" THEN DataResponseBodies ELSE StationResponseBodies

Idle ==
    /\ pc = "idle" /\ op = "none" /\ tokenReqs = 0 /\ attempts = 0 /\ failure = NoError
    /\ headers = NoToken /\ sent = {} /\ body = NoBody /\ result = NoResult /\ raised = NoError

Init ==
    /\ Idle
    /\ calls = 0 /\ issued = 0 /\ spent = {}

(***************************************************************************)
(* A call of a public operation, or of get / post themselves.  get_data    *)
(* and get_station_data evaluate get_request_headers() before get runs.    *)
(***************************************************************************)
Call(o) ==
    /\ pc = "idle"
    /\ calls < MaxCalls
    /\ calls' = calls + 1
    /\ op' = o
    /\ pc' = IF o \in OuterOps THEN "token" ELSE "attempt"
    /\ UNCHANGED <<tokenReqs, attempts, failure, headers, sent, issued, spent, body, result, raised>>

(***************************************************************************)
(* get_auth_token: one requests.post, and .json() of whatever comes back.  *)
(* The endpoint answers with a token, or with an error status whose body   *)
(* is JSON (which then becomes the token), or with a body that is no JSON, *)
(* or not at all.                                                          *)
(***************************************************************************)
TokenAnswer(valid) ==
    /\ issued' = issued + 1
    /\ headers' = Token(valid, issued + 1)
    /\ pc' = "attempt"
    /\ UNCHANGED raised

TokenFails(kind) ==
    /\ raised' = Failure(kind, "token", tokenReqs + 1)
    /\ pc' = "done"
    /\ UNCHANGED <<issued, headers>>

get_auth_token ==
    /\ pc = "token"
    /\ tokenReqs' = tokenReqs + 1
    /\ \/ TokenAnswer(TRUE)
       \/ TokenAnswer(FALSE)
       \/ TokenFails("ConnectionError")
       \/ TokenFails("JSONDecodeError")
    /\ UNCHANGED <<op, calls, attempts, failure, sent, spent, body, result>>

(* A stop condition that lets an 11th attempt through. *)
stop_after_eleven(n) == n > MaxAttempts

(***************************************************************************)
(* tenacity: stop=stop_after_attempt(10), reraise=True.                    *)
(***************************************************************************)
stop_after_attempt(n) == n >= MaxAttempts

Reraise(f) == f

(* Headers that reuse a token an earlier call obtained. *)
CachedHeaders == IF spent # {} THEN CHOOSE h \in spent : TRUE ELSE headers

(***************************************************************************)
(* One attempt of the retry-wrapped get or post: the request, then         *)
(* raise_for_status.  The arguments, headers included, are those of the    *)
(* call, the same at every attempt.                                        *)
(***************************************************************************)
AttemptHeaders == headers

AttemptSucceeds ==
    /\ pc = "attempt"
    /\ attempts' = attempts + 1
    /\ sent' = sent \cup {AttemptHeaders}
    /\ IF op \in TransportOps
       THEN /\ result' = Response(attempts + 1)
            /\ pc' = "done"
            /\ UNCHANGED body
       ELSE /\ body' \in ResponseBodies(op)
            /\ pc' = "parse"
            /\ UNCHANGED result
    /\ UNCHANGED <<op, calls, tokenReqs, failure, headers, issued, spent, raised>>

AttemptFails(kind) ==
    /\ pc = "attempt"
    /\ attempts' = attempts + 1
    /\ sent' = sent \cup {AttemptHeaders}
    /\ failure' = Failure(kind, IF op = "post" THEN "post" ELSE "get", attempts + 1)
    /\ IF stop_after_attempt(attempts + 1)
       THEN /\ raised' = Reraise(failure')
            /\ pc' = "done"
       ELSE /\ pc' = "attempt"
            /\ UNCHANGED raised
    /\ UNCHANGED <<op, calls, tokenReqs, headers, issued, spent, body, result>>

(* A parse failure that sends the call back to the request. *)
RetryAfterParseFailure == "attempt"

(***************************************************************************)
(* What follows a body that does not parse: the exception leaves the call. *)
(***************************************************************************)
AfterParseFailure == "done"

(***************************************************************************)
(* get_station_data, from the response on: .json(), the loop, the return;  *)
(* and, in get_station_names, the mapping built from the returned list.    *)
(***************************************************************************)
StationDataOutcome(b) ==
    IF b.t # "arr" THEN Err("JSONDecodeError") ELSE get_station_data(b.a)

ParseStationData ==
    /\ pc = "parse"
    /\ op \in {"get_station_data", "get_station_names"}
    /\ LET r == StationDataOutcome(body) IN
       IF r.ok
       THEN /\ result' = IF op = "get_station_names"
                         THEN Names(get_station_names(r.v))
                         ELSE Regions(r.v)
            /\ pc' = "done"
            /\ UNCHANGED raised
       ELSE /\ raised' = Failure(r.err, "parse", 0)
            /\ pc' = AfterParseFailure
            /\ UNCHANGED result
    /\ UNCHANGED <<op, calls, tokenReqs, attempts, failure, headers, sent, issued, spent, body>>

(***************************************************************************)
(* get_data, from the response on: MonitorData built from req.json().      *)
(***************************************************************************)
DataOutcome(b) ==
    IF b.t = "notjson" THEN Err("JSONDecodeError") ELSE ParseModel("MonitorData", b)

ParseData ==
    /\ pc = "parse"
    /\ op = "get_data"
    /\ LET r == DataOutcome(body) IN
       IF r.ok
       THEN /\ result' = r.v
            /\ pc' = "done"
            /\ UNCHANGED raised
       ELSE /\ raised' = Failure(r.err, "parse", 0)
            /\ pc' = AfterParseFailure
            /\ UNCHANGED result
    /\ UNCHANGED <<op, calls, tokenReqs, attempts, failure, headers, sent, issued, spent, body>>

(***************************************************************************)
(* The call is over: the caller has the result or the exception.           *)
(***************************************************************************)
Return ==
    /\ pc = "done"
    /\ pc' = "idle" /\ op' = "none" /\ tokenReqs' = 0 /\ attempts' = 0 /\ failure' = NoError
    /\ headers' = NoToken /\ sent' = {} /\ body' = NoBody /\ result' = NoResult
    /\ raised' = NoError
    /\ spent' = IF headers = NoToken THEN spent ELSE spent \cup {headers}
    /\ UNCHANGED <<calls, issued>>

Next ==
    \/ \E o \in OuterOps \cup TransportOps : Call(o)
    \/ get_auth_token
    \/ AttemptSucceeds
    \/ \E kind \in {"ConnectionError", "HTTPError"} : AttemptFails(kind)
    \/ ParseStationData
    \/ ParseData
    \/ Return

Spec == Init /\ [][Next]_vars

(***************************************************************************)
(* The models and the parsing on their own: any body the upstream may      *)
(* send, handed to the code that follows a successful response, and any    *)
(* object handed to a model's constructor.                                 *)
(***************************************************************************)
Construct ==
    /\ pc = "construct"
    /\ LET r == ParseModel(op, body) IN
       IF r.ok
       THEN result' = r.v /\ UNCHANGED raised
       ELSE raised' = Failure(r.err, "parse", 0) /\ UNCHANGED result
    /\ pc' = "done"
    /\ UNCHANGED <<op, calls, tokenReqs, attempts, failure, headers, sent, issued, spent, body>>

ParseInit ==
    /\ calls = 1 /\ spent = {} /\ failure = NoError /\ result = NoResult /\ raised = NoError
    /\ \/ /\ pc = "parse"
          /\ tokenReqs = 1 /\ attempts = 1 /\ issued = 1
          /\ headers = Token(TRUE, 1) /\ sent = {Token(TRUE, 1)}
          /\ \/ op \in {"get_station_data", "get_station_names"}
                /\ body \in {JArr(c) : c \in Catalogs} \cup {NotJson}
             \/ op = "get_data" /\ body \in DataBodies
       \/ /\ pc = "construct"
          /\ tokenReqs = 0 /\ attempts = 0 /\ issued = 0 /\ headers = NoToken /\ sent = {}
          /\ op \in ModelClasses
          /\ body \in ConstructInputs(op)

ParseNext == ParseStationData \/ ParseData \/ Construct

SpecParse == ParseInit /\ [][ParseNext]_vars

(***************************************************************************)
(* The claims.                                                             *)
(***************************************************************************)

Returned(o) == pc = "done" /\ op = o /\ raised = NoError

(* C1: the retry-wrapped get and post make at most 10 requests; a call     *)
(* that returns returns the response of its last request, the N-th, the    *)
(* N-1 before it having failed; a call that raises has made exactly 10     *)
(* requests and raises the failure of the 10th itself, unwrapped.          *)
C1_RetryBudget ==
    /\ attempts <= MaxAttempts
    /\ (pc = "done" /\ op \in TransportOps) =>
          IF raised = NoError
          THEN /\ attempts \in 1..MaxAttempts
               /\ result = Response(attempts)
               /\ IF attempts = 1 THEN failure = NoError ELSE failure.attempt = attempts - 1
          ELSE /\ attempts = MaxAttempts
               /\ result = NoResult
               /\ raised = failure
               /\ raised.attempt = MaxAttempts
               /\ raised.kind \in {"ConnectionError", "HTTPError"}

C1_Witness ==
    /\ pc = "done" /\ op = "post" /\ attempts = MaxAttempts
    /\ raised = Failure("HTTPError", "post", MaxAttempts)

(***************************************************************************)
(* A region object that get_station_data keeps, read off the JSON: its     *)
(* regionId is a non-zero number or numeral, its name a non-empty string.  *)
(***************************************************************************)
JsonKept(j) ==
    /\ "regionId" \in DOMAIN j.o
    /\ \/ j.o.regionId.t = "num" /\ j.o.regionId.i # 0
       \/ j.o.regionId.t = "str" /\ j.o.regionId.c.form = "digits" /\ j.o.regionId.c.n # 0
    /\ "name" \in DOMAIN j.o
    /\ j.o.name.t = "str"
    /\ j.o.name.c # Text("")

Placeholder(j) == "regionId" \in DOMAIN j.o /\ j.o.regionId = JInt(0)

IntOf(v) ==
    CASE v.t = "num" -> v.i
      [] v.t = "str" /\ v.c.form = "digits" -> v.c.n
      [] OTHER -> -1

SameInstant(model, raw) ==
    /\ model.t = "str" /\ model.c.form = "iso"
    /\ interpret_date(raw).ok
    /\ interpret_date(raw).v.dt = model.c.dt

RECURSIVE SameJson(_, _, _)
SameJson(key, model, raw) ==
    IF model.t = "obj" /\ raw.t = "obj"
    THEN /\ DOMAIN model.o = DOMAIN raw.o
         /\ \A k \in DOMAIN model.o : SameJson(k, model.o[k], raw.o[k])
    ELSE IF model.t = "arr" /\ raw.t = "arr"
    THEN /\ Len(model.a) = Len(raw.a)
         /\ \A i \in DOMAIN model.a : SameJson(key, model.a[i], raw.a[i])
    ELSE \/ model = raw
         \/ key = "height" /\ IntOf(model) >= 0 /\ IntOf(model) = IntOf(raw)
         \/ key \in {"MON_StartDate", "MON_EndDate"} /\ SameInstant(model, raw)

(***************************************************************************)
(* Upstream-shaped JSON for a model: every key of the model present, each  *)
(* value of the declared type (height also as a numeral, the dates in the  *)
(* upstream format), null where the field is declared Optional.            *)
(***************************************************************************)
RECURSIVE UpstreamShaped(_, _)
RECURSIVE UpstreamValue(_, _)
UpstreamValue(kind, v) ==
    CASE kind = "int" -> v.t = "num" /\ v.frac = 0
      [] kind = "float" -> v.t = "num"
      [] kind = "str" -> v.t = "str"
      [] kind = "bool" -> v.t = "bool"
      [] kind = "usdate" -> v.t = "str" /\ interpret_date(v).ok
      [] kind = "datetime" -> v.t = "str" /\ v.c.form = "iso"
      [] kind = "any" -> TRUE
      [] IsListKind(kind) ->
            v.t = "arr" /\ \A i \in DOMAIN v.a : UpstreamValue(ElementKind(kind), v.a[i])
      [] IsModelKind(kind) -> UpstreamShaped(kind, v)

UpstreamShaped(cls, j) ==
    /\ j.t = "obj"
    /\ LET fs == Fields(cls) IN
       /\ DOMAIN j.o = {fs[i].alias : i \in DOMAIN fs}
       /\ \A i \in DOMAIN fs :
             LET v == j.o[fs[i].alias] IN
             \/ v = Null /\ fs[i].opt
             \/ v # Null /\ UpstreamValue(fs[i].kind, v)
             \/ fs[i].alias = "height" /\ v.t = "str" /\ v.c.form = "digits"

(* C3: parsing an upstream-shaped region object into a Region and          *)
(* re-serializing it by alias succeeds and gives back the same keys and    *)
(* values at region, station and monitor level, but for the dates          *)
(* reformatted to the same instant and a numeral height become a number.   *)
C3_RoundTrip ==
    (pc = "done" /\ op = "Region" /\ UpstreamShaped("Region", body)) =>
        /\ raised = NoError
        /\ SameJson("", Serialize(result), body)

(***************************************************************************)
(* The stations of a list of Regions, in region-then-station order.        *)
(***************************************************************************)
RECURSIVE Flatten(_)
Flatten(regions) ==
    IF regions = <<>> THEN <<>>
    ELSE Head(regions).f.stations.a \o Flatten(Tail(regions))

Named(station) == station.f.station_id # PNone /\ station.f.name # PNone

(* C4: the mapping get_station_names returns has as keys exactly the ids   *)
(* of the stations, over the Regions get_station_data returns, that have   *)
(* an id and a name, each mapped to the name of the last such station      *)
(* with that id.                                                           *)
C4_StationNames ==
    Returned("get_station_names") =>
        LET flat == Flatten(get_station_data(body.a).v)
            named == {k \in DOMAIN flat : Named(flat[k])}
        IN /\ DOMAIN result.v = {flat[k].f.station_id.i : k \in named}
           /\ \A k \in named :
                 (\A l \in named : l > k => flat[l].f.station_id # flat[k].f.station_id)
                 => result.v[flat[k].f.station_id.i] = flat[k].f.name

C4_Witness ==
    /\ Returned("get_station_names")
    /\ LET flat == Flatten(get_station_data(body.a).v) IN
       /\ \E k, l \in DOMAIN flat :
             /\ k < l /\ Named(flat[k]) /\ Named(flat[l])
             /\ flat[k].f.station_id = flat[l].f.station_id
             /\ flat[k].f.name # flat[l].f.name
       /\ \E k \in DOMAIN flat : ~Named(flat[k])
       /\ Len(body.a) > Len(get_station_data(body.a).v)

(***************************************************************************)
(* The values of an object's present, non-null keys all pass validation.   *)
(***************************************************************************)
PresentValuesValid(cls, j) ==
    LET fs == Fields(cls) IN
    \A i \in DOMAIN fs :
        (fs[i].alias \in DOMAIN j.o /\ j.o[fs[i].alias] # Null)
        => ValidateField(fs[i], j.o[fs[i].alias]).ok

(* C5: constructing a Location, Monitor, Station, Channel or StationDatum  *)
(* from an object some of whose fields are absent or null never raises,    *)
(* and each such field is None in the model.                               *)
C5_AbsentOrNullIsNone ==
    (/\ pc = "done"
     /\ op \in {"Location", "Monitor", "Station", "Channel", "StationDatum"}
     /\ PresentValuesValid(op, body)) =>
        /\ raised = NoError
        /\ LET fs == Fields(op) IN
           \A i \in DOMAIN fs :
               (fs[i].alias \notin DOMAIN body.o \/ body.o[fs[i].alias] = Null)
               => result.f[fs[i].name] = PNone

(***************************************************************************)
(* A stations value every station of which parses.                         *)
(***************************************************************************)
StationsParse(j) ==
    /\ "stations" \in DOMAIN j.o
    /\ j.o.stations.t = "arr"
    /\ \A k \in DOMAIN j.o.stations.a : ParseModel("Station", j.o.stations.a[k]).ok

NullOrValid(j, key, kind) ==
    key \in DOMAIN j.o /\ (j.o[key] = Null \/ ValidateScalar(kind, j.o[key]).ok)

C7_TokenRequestRetried ==
    /\ (pc = "done" /\ raised.src = "token") => tokenReqs = MaxAttempts
    /\ \A h \in sent : h.valid

NotZero(j) == ~Placeholder(j)

ParsedRegions(q) == [i \in DOMAIN q |-> ParseModel("Region", q[i]).v]

C9_ParseFailureNotRetried ==
    [][ /\ pc = "parse" =>
              /\ pc' = "done"
              /\ attempts' = attempts /\ tokenReqs' = tokenReqs
              /\ (raised' # NoError => result' = NoResult /\ raised'.src = "parse")
        /\ (pc = "done" /\ raised.src = "parse") => pc' = "idle"
      ]_vars

C9_Witness ==
    /\ pc = "done" /\ op = "get_station_data"
    /\ raised = Failure("ValidationError", "parse", 0)
    /\ attempts = 3 /\ tokenReqs = 1

(* C10: a call of get_data or get_station_data makes one token request,    *)
(* before its first GET; the token is new, obtained by no earlier call;    *)
(* every GET attempt of the call carries that same token.                  *)
C10_FreshTokenPerCall ==
    op \in OuterOps =>
        /\ tokenReqs <= 1
        /\ pc # "token" => tokenReqs = 1
        /\ attempts > 0 => (tokenReqs = 1 /\ headers # NoToken /\ sent = {headers})
        /\ attempts = 0 => sent = {}
        /\ headers # NoToken => (headers \notin spent /\ headers.id = issued)
        /\ \A h \in spent : h.id < issued \/ headers = NoToken

C10_Witness ==
    /\ op = "get_station_data" /\ pc = "attempt"
    /\ calls = 2 /\ spent # {}
    /\ attempts = 3 /\ sent = {headers} /\ headers.valid

====
